---- MODULE Spec2Model ----
(***************************************************************************)
(* Model of the ReportPortal client (package rp): the connection config    *)
(* built by NewClient, the TestItem lifecycle operations Start, Finish,    *)
(* Log and Update, and the read-only calls CheckConnect and GetDashboard.  *)
(* Strings are TLA+ strings handled character by character with Len,       *)
(* SubSeq and \o, so that prefix/suffix/substring tests are computed as    *)
(* the Go standard library computes them.                                  *)
(***************************************************************************)
EXTENDS Integers, Sequences, FiniteSets, TLC

VARIABLES client, ctor, items, last

vars == <<client, ctor, items, last>>

----------------------------------------------------------------------------
(* Bounds of the model *)

MaxItems == 2

MaxApiVersion == 11

(* HTTP status codes the operations test for *)
StatusOK == 200

StatusCreated == 201

----------------------------------------------------------------------------
(* Go strings package *)

HasPrefix(s, prefix) ==
    /\ Len(s) >= Len(prefix)
    /\ SubSeq(s, 1, Len(prefix)) = prefix

HasSuffix(s, suffix) ==
    /\ Len(s) >= Len(suffix)
    /\ SubSeq(s, Len(s) - Len(suffix) + 1, Len(s)) = suffix

TrimSuffix(s, suffix) ==
    IF HasSuffix(s, suffix) THEN SubSeq(s, 1, Len(s) - Len(suffix)) ELSE s

Contains(s, substr) ==
    \E i \in 1..(Len(s) - Len(substr) + 1) :
        SubSeq(s, i, i + Len(substr) - 1) = substr

Digits == <<"0", "1", "2", "3", "4", "5", "6", "7", "8", "9">>

RECURSIVE Itoa(_)
Itoa(n) ==
    IF n < 0 THEN "-" \o Itoa(0 - n)
    ELSE IF n < 10 THEN Digits[n + 1]
    ELSE Itoa(n \div 10) \o Digits[(n % 10) + 1]

----------------------------------------------------------------------------
(* NewClient: endpoint normalisation *)

EffectiveVersionNoCoerce(apiVersion) == apiVersion

EffectiveVersion(apiVersion) == IF apiVersion < 1 THEN 1 ELSE apiVersion

NewClient(endpoint, project, token, apiVersion) ==
    LET e == TrimSuffix(endpoint, "/")
        scheme == IF ~HasPrefix(e, "https://") /\ ~HasPrefix(e, "http://")
                  THEN "https://" ELSE ""
        version == IF ~Contains(e, "/api/v")
                   THEN "/api/v" \o Itoa(EffectiveVersion(apiVersion)) ELSE ""
    IN  [Endpoint |-> scheme \o e \o version,
         Project  |-> project,
         Token    |-> token]

----------------------------------------------------------------------------
(* Values the caller and the remote service supply *)

Nil == 0

RawSchemes == {"", "http://", "https://", "ftp://"}

RawHosts == {"rp.io", "rp.io:8080"}

RawPaths == {"", "/api/v", "/api/v2", "/api/v2/x", "/rp"}

RawTails == {"", "/", "//"}

RawEndpoints ==
    {s \o h \o p \o t : s \in RawSchemes, h \in RawHosts, p \in RawPaths, t \in RawTails}

ApiVersions == (0 - 1)..MaxApiVersion

(* a project name with a control byte makes url.Parse, and so http.NewRequest, fail *)
Projects == {"proj", "pr\toj"}

Token == "secret"

TestItemSuite == "SUITE"

TestItemTest == "TEST"

(* what the caller passes to NewTestItem: a suite at the root, a test under
   a parent, as in the end-to-end scenario *)
Constructions(parent) ==
    IF parent = Nil
    THEN {[name |-> "Suite A", description |-> "d0", type |-> TestItemSuite, tags |-> <<>>]}
    ELSE {[name |-> "Test 1", description |-> "d0", type |-> TestItemTest, tags |-> <<>>]}

(* what the caller passes to Update *)
Updates ==
    {[description |-> "d0", tags |-> <<>>],
     [description |-> "d1", tags |-> <<"smoke">>]}

StatusFailed == "FAILED"

FinishStatuses == {StatusFailed}

LevelError == "error"

Levels == {LevelError}

Messages == {"boom"}

(* time.Now(): seconds and nanoseconds since the epoch *)
Times == {[sec |-> 1, nsec |-> 2999999]}

(* an io.Reader: the bytes it holds, how many were already read, and
   whether reading it fails *)
Readers ==
    {[bytes |-> "PNG", pos |-> 1, fails |-> FALSE],
     [bytes |-> "PNG", pos |-> 0, fails |-> TRUE]}

NoReader == [bytes |-> "", pos |-> 0, fails |-> FALSE]

NoAttachment == [nil |-> TRUE, Name |-> "", Data |-> NoReader, MimeType |-> ""]

Attachments ==
    {NoAttachment} \cup
    {[nil |-> FALSE, Name |-> "shot.png", Data |-> r, MimeType |-> "image/png"] :
        r \in Readers}

(* response bodies: a JSON object with its fields, a JSON array of such
   objects, or bytes that are no JSON *)
Object(fields) == [json |-> TRUE, array |-> FALSE, fields |-> fields]

Array(fields) == [json |-> TRUE, array |-> TRUE, fields |-> fields]

NotJSON(raw) == [json |-> FALSE, array |-> FALSE, fields |-> [raw |-> raw]]

NilResponse == [nil |-> TRUE, StatusCode |-> 0, Body |-> NotJSON("")]

Response(code, body) ==
    [err |-> FALSE, resp |-> [nil |-> FALSE, StatusCode |-> code, Body |-> body]]

(* doRequest(request, token) -> response | error: an error and no response *)
TransportFailure == [err |-> TRUE, resp |-> NilResponse]

(* what doRequest can answer to the creation of an item *)
doRequestItem ==
    {TransportFailure,
     Response(StatusCreated, Object([id |-> "a"])),
     Response(StatusCreated, Object([id |-> "b"])),
     Response(StatusCreated, Object([message |-> "x"])),
     Response(StatusCreated, NotJSON("<html>")),
     Response(StatusOK, Object([id |-> "a"]))}

(* what doRequest can answer to Finish, Update, Log and CheckConnect *)
doRequestPlain ==
    {TransportFailure,
     Response(StatusOK, Object([message |-> "x"])),
     Response(StatusCreated, Object([message |-> "x"]))}

(* what doRequest can answer to GetDashboard *)
doRequestDashboard ==
    {TransportFailure,
     Response(StatusOK, Array([name |-> "board"])),
     Response(StatusOK, NotJSON("<html>")),
     Response(404, Array([name |-> "board"]))}

NotSent == [err |-> FALSE, resp |-> NilResponse]

(* toTimestamp: epoch milliseconds *)
toTimestamp(t) == t.sec * 1000 + t.nsec \div 1000000

launch == [Id |-> "launch-1"]

----------------------------------------------------------------------------
(* Requests *)

NoBody == [kind |-> "none", json |-> <<>>, parts |-> <<>>]

JSONBody(obj) == [kind |-> "json", json |-> obj, parts |-> <<>>]

MultipartBody(parts) == [kind |-> "multipart", json |-> <<>>, parts |-> parts]

NoRequest == [sent |-> FALSE, method |-> "", url |-> "", ctype |-> "", body |-> NoBody]

CtlBytes == {"\t", "\n", "\r"}

(* http.NewRequest fails when url.Parse rejects the URL: a control byte in it *)
ValidURL(url) == \A i \in 1..Len(url) : SubSeq(url, i, i) \notin CtlBytes

Request(method, url, ctype, body) ==
    [sent |-> TRUE, method |-> method, url |-> url, ctype |-> ctype, body |-> body]

----------------------------------------------------------------------------
(* State *)

NoItem ==
    [Id |-> "", Name |-> "", Description |-> "", Parent |-> Nil, Tags |-> <<>>, Type |-> ""]

NoArgs ==
    [status |-> "", message |-> "", level |-> "", attachment |-> NoAttachment,
     description |-> "", tags |-> <<>>]

(* the most recent call: its receiver before the call, its arguments, the
   request it built, what doRequest answered and how the call ended
   ("ok": nil error, "error": a non-nil error, "panic": a run-time panic) *)
NoCall ==
    [op |-> "none", item |-> Nil, pre |-> NoItem, args |-> NoArgs, req |-> NoRequest,
     out |-> NotSent, result |-> "ok", err |-> "", reader |-> NoReader]

Call(op, i, pre, args, req, out, ret) ==
    [op |-> op, item |-> i, pre |-> pre, args |-> args, req |-> req,
     out |-> out, result |-> ret.result, err |-> ret.err, reader |-> args.attachment.Data]

Ok == [result |-> "ok", err |-> ""]

Error(kind) == [result |-> "error", err |-> kind]

Panic == [result |-> "panic", err |-> "nil pointer dereference"]

Running == last.result # "panic"

MainEndpoints == {"rp.io/"}

Init ==
    /\ ctor \in {[endpoint |-> e, project |-> p, token |-> Token, apiVersion |-> 1] :
                    e \in MainEndpoints, p \in Projects}
    /\ client = NewClient(ctor.endpoint, ctor.project, ctor.token, ctor.apiVersion)
    /\ items = <<>>
    /\ last = NoCall

NewTestItem(name, description, itemType, tags, parent) ==
    [Id |-> "", Name |-> name, Description |-> description, Parent |-> parent,
     Tags |-> tags, Type |-> itemType]

DoNewTestItem ==
    /\ Running
    /\ Len(items) < MaxItems
    /\ \E parent \in {Nil} \cup DOMAIN items :
        \E c \in Constructions(parent) :
          /\ items' = Append(items,
                             NewTestItem(c.name, c.description, c.type, c.tags, parent))
          /\ last' = [NoCall EXCEPT !.op = "NewTestItem", !.item = Len(items) + 1]
    /\ UNCHANGED <<client, ctor>>

----------------------------------------------------------------------------
(* TestItem.Start *)

StartURLIgnoringParent(ti) ==
    client.Endpoint \o "/" \o client.Project \o "/item"

StartURL(ti) ==
    IF ti.Parent # Nil
    THEN client.Endpoint \o "/" \o client.Project \o "/item/" \o items[ti.Parent].Id
    ELSE client.Endpoint \o "/" \o client.Project \o "/item"

StartData(ti, now) ==
    [name |-> ti.Name, description |-> ti.Description, tags |-> ti.Tags,
     start_time |-> toTimestamp(now), launch_id |-> launch.Id, type |-> ti.Type,
     parameters |-> "null"]

(* json.NewDecoder(resp.Body).Decode(&v) for v of type struct{Id string}:
   fails on bytes that are no JSON and on a JSON array; a missing id leaves
   the zero value *)
DecodeId(body) ==
    [err |-> ~body.json \/ body.array,
     Id  |-> IF body.json /\ ~body.array /\ "id" \in DOMAIN body.fields
             THEN body.fields.id ELSE ""]

(* how Start ends after doRequest answered out, and the Id the entity then has *)
StartReturn(ti, out) ==
    IF out.resp.nil THEN [ret |-> Panic, Id |-> ti.Id]
    ELSE IF out.err THEN [ret |-> Error("transport"), Id |-> ti.Id]
    ELSE IF out.resp.StatusCode # StatusCreated THEN [ret |-> Error("status"), Id |-> ti.Id]
    ELSE IF DecodeId(out.resp.Body).err THEN [ret |-> Error("decode"), Id |-> ti.Id]
    ELSE [ret |-> Ok, Id |-> DecodeId(out.resp.Body).Id]

Start(i) ==
    /\ Running
    /\ LET ti  == items[i]
           url == StartURL(ti)
       IN  IF ~ValidURL(url)
           THEN /\ last' = Call("Start", i, ti, NoArgs, NoRequest, NotSent, Error("request"))
                /\ UNCHANGED items
           ELSE \E now \in Times, answer \in doRequestItem :
                LET req == Request("POST", url, "application/json",
                                   JSONBody(StartData(ti, now)))
                    r   == StartReturn(ti, answer)
                IN  /\ items' = [items EXCEPT ![i].Id = r.Id]
                    /\ last' = Call("Start", i, ti, NoArgs, req, answer, r.ret)
    /\ UNCHANGED <<client, ctor>>

----------------------------------------------------------------------------
(* TestItem.Finish *)

FinishURLOfParent(ti) ==
    client.Endpoint \o "/" \o client.Project \o "/item/" \o
        (IF ti.Parent # Nil THEN items[ti.Parent].Id ELSE ti.Id)

FinishURL(ti) ==
    client.Endpoint \o "/" \o client.Project \o "/item/" \o ti.Id

FinishData(status, now) == [end_time |-> toTimestamp(now), status |-> status]

FinishReturnAny2xx(out) ==
    IF out.resp.nil THEN Panic
    ELSE IF out.err THEN Error("transport")
    ELSE IF out.resp.StatusCode \notin {StatusOK, StatusCreated} THEN Error("status")
    ELSE Ok

FinishReturn(out) ==
    IF out.resp.nil THEN Panic
    ELSE IF out.err THEN Error("transport")
    ELSE IF out.resp.StatusCode # StatusOK THEN Error("status")
    ELSE Ok

FinishEffectClearsId(ti, ret) == [ti EXCEPT !.Id = IF ret.result = "ok" THEN "" ELSE @]

FinishEffectTouchesDescription(ti, ret) == [ti EXCEPT !.Description = "finished"]

(* Finish assigns no field of the entity *)
FinishEffect(ti, ret) == ti

Finish(i) ==
    /\ Running
    /\ \E status \in FinishStatuses :
        LET ti   == items[i]
            url  == FinishURL(ti)
            args == [NoArgs EXCEPT !.status = status]
        IN  IF ~ValidURL(url)
            THEN /\ last' = Call("Finish", i, ti, args, NoRequest, NotSent, Error("request"))
                 /\ UNCHANGED items
            ELSE \E now \in Times, answer \in doRequestPlain :
                 LET req == Request("PUT", url, "application/json",
                                    JSONBody(FinishData(status, now)))
                 IN  /\ items' = [items EXCEPT ![i] = FinishEffect(ti, FinishReturn(answer))]
                     /\ last' = Call("Finish", i, ti, args, req, answer, FinishReturn(answer))
    /\ UNCHANGED <<client, ctor>>

----------------------------------------------------------------------------
(* TestItem.Update *)

UpdateURL(ti) ==
    client.Endpoint \o "/" \o client.Project \o "/item/" \o ti.Id \o "/update"

UpdateData(description, tags) == [description |-> description, tags |-> tags]

UpdateReturn(out) ==
    IF out.resp.nil THEN Panic
    ELSE IF out.err THEN Error("transport")
    ELSE IF out.resp.StatusCode # StatusOK THEN Error("status")
    ELSE Ok

UpdateEffectEarlyDescription(ti, description, tags, ret) ==
    IF ret.result = "ok"
    THEN [ti EXCEPT !.Description = description, !.Tags = tags]
    ELSE [ti EXCEPT !.Description = description]

(* the assignments of Update, reached only after the status check *)
UpdateEffect(ti, description, tags, ret) ==
    IF ret.result = "ok"
    THEN [ti EXCEPT !.Description = description, !.Tags = tags]
    ELSE ti

Update(i) ==
    /\ Running
    /\ LET ti  == items[i]
           url == UpdateURL(ti)
       IN  \E u \in Updates :
           LET description == u.description
               tags == u.tags
               args == [NoArgs EXCEPT !.description = description, !.tags = tags]
           IN  IF ~ValidURL(url)
               THEN /\ last' = Call("Update", i, ti, args, NoRequest, NotSent,
                                    Error("request"))
                    /\ UNCHANGED items
               ELSE \E answer \in doRequestPlain :
                    LET req == Request("PUT", url, "application/json",
                                       JSONBody(UpdateData(description, tags)))
                        ret == UpdateReturn(answer)
                    IN  /\ items' = [items EXCEPT
                                       ![i] = UpdateEffect(ti, description, tags, ret)]
                        /\ last' = Call("Update", i, ti, args, req, answer, ret)
    /\ UNCHANGED <<client, ctor>>

----------------------------------------------------------------------------
(* TestItem.Log *)

LogURL == client.Endpoint \o "/" \o client.Project \o "/log"

(* io.Copy(dst, src): everything src still holds, read to exhaustion *)
Copy(reader) ==
    IF reader.fails
    THEN [err |-> TRUE, data |-> "", reader |-> reader]
    ELSE [err |-> FALSE,
          data |-> SubSeq(reader.bytes, reader.pos + 1, Len(reader.bytes)),
          reader |-> [reader EXCEPT !.pos = Len(reader.bytes)]]

Part(disposition, ctype, body) ==
    [disposition |-> disposition, ctype |-> ctype, body |-> body]

JSONRequestPart(ti, message, level, attachment, now) ==
    Part("form-data; name=\"json_request_part\"", "application/json",
         [kind |-> "json",
          value |-> << [file |-> [name |-> attachment.Name], item_id |-> ti.Id,
                        level |-> level, message |-> message,
                        time |-> toTimestamp(now)] >>])

FilePart(attachment, data) ==
    Part("form-data; name=\"file\"; filename=\"" \o attachment.Name \o "\"",
         attachment.MimeType, [kind |-> "raw", value |-> data])

LogPartsFileFirst(ti, message, level, attachment, now, data) ==
    << FilePart(attachment, data), JSONRequestPart(ti, message, level, attachment, now) >>

(* the parts in the order bodyWriter.CreatePart is called *)
LogParts(ti, message, level, attachment, now, data) ==
    << JSONRequestPart(ti, message, level, attachment, now), FilePart(attachment, data) >>

getReqForLogWithAttach(ti, message, level, attachment, now) ==
    LET copied == Copy(attachment.Data)
        parts  == LogParts(ti, message, level, attachment, now, copied.data)
    IN  IF copied.err
        THEN [err |-> "copy", req |-> NoRequest, reader |-> copied.reader]
        ELSE IF ~ValidURL(LogURL)
        THEN [err |-> "request", req |-> NoRequest, reader |-> copied.reader]
        ELSE [err |-> "",
              req |-> Request("POST", LogURL, "multipart/form-data; boundary=b0",
                              MultipartBody(parts)),
              reader |-> copied.reader]

getReqForLog(ti, message, level, now) ==
    IF ~ValidURL(LogURL)
    THEN [err |-> "request", req |-> NoRequest, reader |-> NoReader]
    ELSE [err |-> "",
          req |-> Request("POST", LogURL, "application/json",
                          JSONBody([item_id |-> ti.Id, message |-> message,
                                    level |-> level, time |-> toTimestamp(now)])),
          reader |-> NoReader]

LogReturn(out) ==
    IF out.resp.nil THEN Panic
    ELSE IF out.err THEN Error("transport")
    ELSE IF out.resp.StatusCode # StatusCreated THEN Error("status")
    ELSE Ok

Log(i) ==
    /\ Running
    /\ \E message \in Messages, level \in Levels, attachment \in Attachments,
          now \in Times :
        LET ti    == items[i]
            args  == [NoArgs EXCEPT !.message = message, !.level = level,
                                    !.attachment = attachment]
            built == IF ~attachment.nil
                     THEN getReqForLogWithAttach(ti, message, level, attachment, now)
                     ELSE getReqForLog(ti, message, level, now)
        IN  IF built.err # ""
            THEN last' = [Call("Log", i, ti, args, NoRequest, NotSent, Error(built.err))
                            EXCEPT !.reader = built.reader]
            ELSE \E answer \in doRequestPlain :
                 last' = [Call("Log", i, ti, args, built.req, answer, LogReturn(answer))
                            EXCEPT !.reader = built.reader]
    /\ UNCHANGED <<client, ctor, items>>

----------------------------------------------------------------------------
(* Client.CheckConnect and Client.GetDashboard *)

CheckConnectReturn(out) ==
    IF out.resp.nil THEN Panic
    ELSE IF out.err THEN Error("transport")
    ELSE IF out.resp.StatusCode # StatusOK THEN Error("status")
    ELSE Ok

CheckConnect ==
    /\ Running
    /\ LET url == client.Endpoint \o "/user"
       IN  IF ~ValidURL(url)
           THEN last' = Call("CheckConnect", Nil, NoItem, NoArgs, NoRequest, NotSent,
                             Error("request"))
           ELSE \E answer \in doRequestPlain :
                last' = Call("CheckConnect", Nil, NoItem, NoArgs,
                             Request("GET", url, "", NoBody), answer,
                             CheckConnectReturn(answer))
    /\ UNCHANGED <<client, ctor, items>>

(* Decode(&d) for d of type *Dashboard, a slice: needs a JSON array *)
GetDashboardReturn(out) ==
    IF out.resp.nil THEN Panic
    ELSE IF out.err THEN Error("transport")
    ELSE IF out.resp.StatusCode # StatusOK THEN Error("status")
    ELSE IF ~(out.resp.Body.json /\ out.resp.Body.array) THEN Error("decode")
    ELSE Ok

GetDashboard ==
    /\ Running
    /\ LET url == client.Endpoint \o "/" \o client.Project \o "/dashboard"
       IN  IF ~ValidURL(url)
           THEN last' = Call("GetDashboard", Nil, NoItem, NoArgs, NoRequest, NotSent,
                             Error("request"))
           ELSE \E answer \in doRequestDashboard :
                last' = Call("GetDashboard", Nil, NoItem, NoArgs,
                             Request("GET", url, "application/json", NoBody), answer,
                             GetDashboardReturn(answer))
    /\ UNCHANGED <<client, ctor, items>>

----------------------------------------------------------------------------
(* Specifications *)

StartItem == \E i \in DOMAIN items : Start(i)

FinishItem == \E i \in DOMAIN items : Finish(i)

LogItem == \E i \in DOMAIN items : Log(i)

UpdateItem == \E i \in DOMAIN items : Update(i)

Next ==
    \/ DoNewTestItem
    \/ StartItem
    \/ FinishItem
    \/ LogItem
    \/ UpdateItem
    \/ CheckConnect
    \/ GetDashboard

Spec == Init /\ [][Next]_vars

(* NewClient applied to raw inputs: the inputs are drawn first, then the
   connection config is constructed from them *)
NoClient == [Endpoint |-> "", Project |-> "", Token |-> ""]

InitClient ==
    /\ ctor \in {[endpoint |-> e, project |-> p, token |-> Token, apiVersion |-> v] :
                    e \in RawEndpoints, p \in Projects, v \in ApiVersions}
    /\ client = NoClient
    /\ items = <<>>
    /\ last = NoCall

NewClientCall ==
    /\ last.op = "none"
    /\ client' = NewClient(ctor.endpoint, ctor.project, ctor.token, ctor.apiVersion)
    /\ last' = [NoCall EXCEPT !.op = "NewClient"]
    /\ UNCHANGED <<ctor, items>>

NextClient == NewClientCall

SpecClient == InitClient /\ [][NextClient]_vars

----------------------------------------------------------------------------
(* Properties *)

Answered == ~last.out.resp.nil

ItemOps == {"Start", "Finish", "Log", "Update"}

NetOps == ItemOps \cup {"CheckConnect", "GetDashboard"}

(* C1: for a TestItem whose id is empty, Start stores the decoded id and
   returns no error exactly when the request is answered with HTTP 201 and
   a decodable {id} body; in every other outcome Start returns an error and
   the id remains empty. *)
C1_StartStoresIdIffCreated ==
    (last.op = "Start" /\ last.pre.Id = "") =>
        LET body    == last.out.resp.Body
            created == /\ last.req.sent
                       /\ ~last.out.err
                       /\ Answered
                       /\ last.out.resp.StatusCode = StatusCreated
                       /\ body.json /\ ~body.array
        IN  IF created
            THEN /\ last.result = "ok"
                 /\ items[last.item].Id =
                        (IF "id" \in DOMAIN body.fields THEN body.fields.id ELSE "")
            ELSE /\ last.result = "error"
                 /\ items[last.item].Id = ""

(* C2: in every operation, when doRequest reports a transport failure (an
   error with no response), the operation ends by returning an error to its
   caller: the failure is not swallowed and does not end the process
   abnormally. *)
C2_TransportFailureReturnsError ==
    (last.op \in NetOps /\ last.req.sent /\ last.out.err /\ last.out.resp.nil) =>
        last.result = "error"

(* C3: Update changes the local description and tags to its arguments if
   and only if it returns no error, which happens exactly when the request
   was answered with HTTP 200; otherwise description and tags both keep
   their values from before the call. *)
C3_UpdateAllOrNothing ==
    last.op = "Update" =>
        LET ti == items[last.item]
        IN  /\ (last.result = "ok") <=>
                   (last.req.sent /\ Answered /\ last.out.resp.StatusCode = StatusOK)
            /\ IF last.result = "ok"
               THEN /\ ti.Description = last.args.description
                    /\ ti.Tags = last.args.tags
               ELSE /\ ti.Description = last.pre.Description
                    /\ ti.Tags = last.pre.Tags

C3_Witness ==
    /\ last.op = "Update"
    /\ last.req.sent
    /\ Answered
    /\ last.result = "error"
    /\ last.args.description # last.pre.Description
    /\ last.args.tags # last.pre.Tags
    /\ items[last.item].Description = last.pre.Description

(* C4 as stated: whenever Start issues a request for an entity that has a
   parent, that parent already has a non-empty id. *)
C4_ParentStartedBeforeChild ==
    (last.op = "Start" /\ last.req.sent /\ last.pre.Parent # Nil) =>
        items[last.pre.Parent].Id # ""

(* C4 amended: Start makes no check of the parent. Whenever Start issues a
   request it targets {endpoint}/{project}/item/{parent.Id} with the
   parent's current id when the entity has a parent (so .../item/ with an
   empty id when the parent is not started) and {endpoint}/{project}/item
   when it has none; and it issues the request whenever that URL is
   well-formed. *)
C4_StartTargetsParentId ==
    last.op = "Start" =>
        LET base   == client.Endpoint \o "/" \o client.Project \o "/item"
            target == IF last.pre.Parent # Nil
                      THEN base \o "/" \o items[last.pre.Parent].Id
                      ELSE base
        IN  /\ last.req.sent => last.req.url = target
            /\ last.req.sent <=> ValidURL(target)

C4_Witness ==
    /\ last.op = "Start"
    /\ last.req.sent
    /\ last.pre.Parent # Nil
    /\ items[last.pre.Parent].Id = ""
    /\ HasSuffix(last.req.url, "/item/")

(* C5 as stated: an entity's id is immutable once assigned: no later Start,
   Finish, Log or Update call changes it. *)
C5_IdImmutableOnceAssigned ==
    [][\A i \in DOMAIN items : items[i].Id # "" => items'[i].Id = items[i].Id]_vars

(* C5 amended: an entity's id changes only in a Start call on that entity
   that returns no error; Finish, Log, Update and a failed Start never
   change it, while a later successful Start overwrites it with the id
   decoded from its own response. *)
C5_IdChangesOnlyBySuccessfulStart ==
    [][\A i \in DOMAIN items :
          items'[i].Id # items[i].Id =>
              /\ last'.op = "Start"
              /\ last'.item = i
              /\ last'.result = "ok"
              /\ last'.out.resp.StatusCode = StatusCreated]_vars

C5_Witness ==
    /\ last.op = "Start"
    /\ last.result = "ok"
    /\ last.pre.Id # ""
    /\ items[last.item].Id # last.pre.Id

(* C6 as stated: a Finish request is sent, and Finish can return success,
   only for an entity whose id is non-empty. *)
C6_FinishOnlyAfterStart ==
    (last.op = "Finish" /\ (last.req.sent \/ last.result = "ok")) => last.pre.Id # ""

(* C6 amended: Finish makes no check that the entity was started. It sends
   its request to {endpoint}/{project}/item/{id} with the entity's current
   id, also when that id is empty, whenever that URL is well-formed, and it
   returns success exactly when the request is answered with HTTP 200. *)
C6_FinishTargetsCurrentId ==
    last.op = "Finish" =>
        LET target == client.Endpoint \o "/" \o client.Project \o "/item/" \o last.pre.Id
        IN  /\ last.req.sent => last.req.url = target
            /\ last.req.sent <=> ValidURL(target)
            /\ (last.result = "ok") <=>
                   (last.req.sent /\ Answered /\ last.out.resp.StatusCode = StatusOK)

C6_Witness ==
    /\ last.op = "Finish"
    /\ last.pre.Id = ""
    /\ last.req.sent
    /\ HasSuffix(last.req.url, "/item/")
    /\ last.result = "ok"

(* the version NewClient is asked for, 1 standing in for apiVersion <= 0 *)
ChosenVersion == IF ctor.apiVersion <= 0 THEN 1 ELSE ctor.apiVersion

Schemeless(raw) == ~HasPrefix(raw, "http://") /\ ~HasPrefix(raw, "https://")

(* {scheme}://{host}/api/v{N} with N >= 1 and a non-empty host *)
Versioned(endpoint) ==
    \E scheme \in {"http://", "https://"}, n \in 1..(MaxApiVersion + 1) :
        /\ HasPrefix(endpoint, scheme)
        /\ HasSuffix(endpoint, "/api/v" \o Itoa(n))
        /\ Len(endpoint) > Len(scheme) + Len("/api/v" \o Itoa(n))

(* C7 as stated: for every raw endpoint and every apiVersion the Endpoint
   has the form {scheme}://{host}/api/v{N} with N >= 1 and no trailing
   slash, and for a raw endpoint without scheme it starts with https:// and
   ends with /api/v{N}, N being apiVersion, or 1 when apiVersion <= 0. *)
C7_EndpointAlwaysVersioned ==
    last.op = "NewClient" =>
        /\ Versioned(client.Endpoint)
        /\ ~HasSuffix(client.Endpoint, "/")
        /\ Schemeless(ctor.endpoint) =>
               /\ HasPrefix(client.Endpoint, "https://")
               /\ HasSuffix(client.Endpoint, "/api/v" \o Itoa(ChosenVersion))

(* C7 amended: for every raw endpoint and apiVersion the Endpoint starts
   with http:// or https://, and with https:// when the raw endpoint has
   neither prefix. When the raw endpoint does not contain "/api/v", the
   Endpoint ends with /api/v{N}, N being apiVersion, or exactly 1 when
   apiVersion <= 0, and has no trailing slash. When the raw endpoint
   already contains "/api/v", nothing is appended: the Endpoint ends with
   the raw endpoint less one trailing slash, and is that string alone or
   that string after https://. *)
C7_EndpointVersionedUnlessPresent ==
    last.op = "NewClient" =>
        LET raw     == ctor.endpoint
            trimmed == IF Len(raw) > 0 /\ SubSeq(raw, Len(raw), Len(raw)) = "/"
                       THEN SubSeq(raw, 1, Len(raw) - 1) ELSE raw
        IN  /\ HasPrefix(client.Endpoint, "http://") \/ HasPrefix(client.Endpoint, "https://")
            /\ Schemeless(raw) => HasPrefix(client.Endpoint, "https://")
            /\ ~Contains(raw, "/api/v") =>
                   /\ HasSuffix(client.Endpoint, "/api/v" \o Itoa(ChosenVersion))
                   /\ ~HasSuffix(client.Endpoint, "/")
                   /\ Contains(client.Endpoint, trimmed \o "/api/v")
            /\ Contains(raw, "/api/v") =>
                   /\ HasSuffix(client.Endpoint, trimmed)
                   /\ Len(client.Endpoint) \in {Len(trimmed), Len(trimmed) + Len("https://")}

C7_Witness ==
    /\ last.op = "NewClient"
    /\ ctor.apiVersion <= 0
    /\ Schemeless(ctor.endpoint)
    /\ HasSuffix(ctor.endpoint, "/")
    /\ ~Contains(ctor.endpoint, "/api/v")
    /\ HasPrefix(client.Endpoint, "https://rp.io")
    /\ HasSuffix(client.Endpoint, "/api/v1")

(* the documented success status of each operation *)
DocumentedStatus(op) ==
    CASE op = "Start" -> StatusCreated
      [] op = "Finish" -> StatusOK
      [] op = "Update" -> StatusOK
      [] op = "Log" -> StatusCreated
      [] op = "CheckConnect" -> StatusOK
      [] op = "GetDashboard" -> StatusOK

(* C8: each operation returns success only when the response carries its
   documented status code; for every other status code it returns an error
   and changes no field of any entity or of the client. *)
C8_StatusMapping ==
    [][(last'.op \in NetOps /\ last'.req.sent /\ ~last'.out.resp.nil) =>
          /\ last'.result = "ok" =>
                 last'.out.resp.StatusCode = DocumentedStatus(last'.op)
          /\ last'.out.resp.StatusCode # DocumentedStatus(last'.op) =>
                 /\ last'.result = "error"
                 /\ items' = items
                 /\ client' = client]_vars

C8_Witness ==
    /\ last.op = "Finish"
    /\ Answered
    /\ last.out.resp.StatusCode = StatusCreated
    /\ last.result = "error"
    /\ items[last.item] = last.pre

(* C9: Log chooses its encoding by the attachment argument alone. Without
   attachment the body is one JSON object with exactly the fields item_id,
   message, level, time. With an attachment the body is multipart with
   exactly two parts, json_request_part then file; the first part's JSON
   payload is an array of length 1 carrying the attachment name and the
   entity's id, and the second part's body is what the attachment's reader
   held, read until exhaustion. *)
C9_LogEncoding ==
    (last.op = "Log" /\ last.req.sent) =>
        LET body == last.req.body
            att  == last.args.attachment
        IN  IF att.nil
            THEN /\ body.kind = "json"
                 /\ DOMAIN body.json = {"item_id", "message", "level", "time"}
                 /\ body.json.item_id = last.pre.Id
            ELSE /\ body.kind = "multipart"
                 /\ Len(body.parts) = 2
                 /\ HasPrefix(body.parts[1].disposition,
                              "form-data; name=\"json_request_part\"")
                 /\ HasPrefix(body.parts[2].disposition, "form-data; name=\"file\"")
                 /\ body.parts[1].body.kind = "json"
                 /\ Len(body.parts[1].body.value) = 1
                 /\ body.parts[1].body.value[1].file.name = att.Name
                 /\ body.parts[1].body.value[1].item_id = last.pre.Id
                 /\ body.parts[2].body.kind = "raw"
                 /\ body.parts[2].body.value =
                        SubSeq(att.Data.bytes, att.Data.pos + 1, Len(att.Data.bytes))
                 /\ last.reader.pos = Len(att.Data.bytes)

C9_Witness ==
    /\ last.op = "Log"
    /\ last.req.sent
    /\ ~last.args.attachment.nil
    /\ last.pre.Id # ""
    /\ last.req.body.kind = "multipart"
    /\ last.req.body.parts[2].body.value = "NG"
    /\ last.result = "ok"

(* C10: an entity's type, name and parent never change after construction,
   and its description and tags change only in a step that is an Update
   call on it: Start, Finish and Log leave type, name, description, tags
   and parent unchanged whether they succeed or fail. *)
C10_FrameOfStartFinishLog ==
    [][\A i \in DOMAIN items :
          /\ items'[i].Type = items[i].Type
          /\ items'[i].Name = items[i].Name
          /\ items'[i].Parent = items[i].Parent
          /\ (items'[i].Description # items[i].Description \/ items'[i].Tags # items[i].Tags)
                 => (last'.op = "Update" /\ last'.item = i)]_vars

C10_Witness ==
    /\ last.op = "Start"
    /\ last.result = "ok"
    /\ items[last.item].Id # last.pre.Id
    /\ last.pre.Description = "d1"
    /\ items[last.item].Description = "d1"
    /\ items[last.item].Tags = <<"smoke">>
    /\ items[last.item].Type = last.pre.Type

====
